---- MODULE Spec2Model ----
(***************************************************************************)
(* Model of two KEDA scalers:                                              *)
(*   pkg/scalers/gcp_storage_scaler.go   (object-count scaler)             *)
(*   pkg/scalers/predictkube_scaler.go   (predictive scaler)               *)
(*                                                                         *)
(* One Scaler instance is modelled at a time: instances share no mutable   *)
(* state.  Strings are sequences of characters (or of words, for error     *)
(* messages); an error value is its message and the nil error is the empty *)
(* sequence.  Durations are counted in minutes.  A float64 sample value v  *)
(* is held in fixed point as the integer v * Scale.                        *)
(***************************************************************************)
EXTENDS Integers, Sequences, FiniteSets, TLC

VARIABLES
    pc,        \* position of the instance: "new", "ready", "failed", "closed", "norm"
    config,    \* the ScalerConfig handed to the constructor
    metadata,  \* the scaler's parsed metadata (s.metadata)
    conn,      \* the backend handles the scaler owns
    events,    \* backend contacts made by the constructor, in order
    ctorErr,   \* the error the constructor returned (Nil when none)
    ret        \* operation, inputs and result of the last call

vars == <<pc, config, metadata, conn, events, ctorErr, ret>>

----------------------------------------------------------------------------
(* Bounds of the model                                                     *)

MaxItems == 3          \* objects in the bucket
MaxSamples == 2        \* samples per series / per instant vector
MaxSeries == 2         \* series of a range matrix

(* Program constants                                                       *)

defaultTargetObjectCount == 100
defaultMaxBucketItemsToScan == 1000
defaultStep == 5

Scale == 10

----------------------------------------------------------------------------
(* Strings, errors                                                         *)

Nil == <<>>

Err(msg) == <<msg>>

Str(s) == [ok |-> TRUE, val |-> s]

Absent == [ok |-> FALSE, val |-> <<>>]

Digits == {"0", "1", "2", "3", "4", "5", "6", "7", "8", "9"}

DigitVal ==
    [c \in Digits |->
        CASE c = "0" -> 0 [] c = "1" -> 1 [] c = "2" -> 2 [] c = "3" -> 3
          [] c = "4" -> 4 [] c = "5" -> 5 [] c = "6" -> 6 [] c = "7" -> 7
          [] c = "8" -> 8 [] c = "9" -> 9]

RECURSIVE DigitsVal(_)
DigitsVal(s) ==
    IF s = <<>> THEN 0
    ELSE DigitsVal(SubSeq(s, 1, Len(s) - 1)) * 10 + DigitVal[s[Len(s)]]

AllDigits(s) == Len(s) > 0 /\ \A i \in 1..Len(s) : s[i] \in Digits

\* strconv.Atoi / strconv.ParseInt(val, 10, 64): optional sign, then digits
ParseInt(s) ==
    LET signed == Len(s) > 0 /\ s[1] \in {"+", "-"}
        body   == IF signed THEN Tail(s) ELSE s
    IN  IF ~AllDigits(body)
        THEN [val |-> 0, err |-> Err("invalid syntax")]
        ELSE [val |-> IF signed /\ s[1] = "-" THEN 0 - DigitsVal(body)
                      ELSE DigitsVal(body),
              err |-> Nil]

\* strings.Contains on word sequences
Contains(s, sub) ==
    \E i \in 0..(Len(s) - Len(sub)) : SubSeq(s, i + 1, i + Len(sub)) = sub

\* GetMetricTargetType(config): "Value" and "AverageValue" resolve
GetMetricTargetType(cfg) ==
    IF cfg.metricType \in {"Value", "AverageValue"}
    THEN [val |-> cfg.metricType, err |-> Nil]
    ELSE [val |-> "", err |-> Err("unknown metric type")]

MetricTypes == {"AverageValue", "Bogus"}

----------------------------------------------------------------------------
(* Object-count scaler: metadata                                           *)

\* getGcpAuthorization(config, config.ResolvedEnv): the credentials source
getGcpAuthorization(cfg) ==
    IF cfg.auth = "notFound"
    THEN [val |-> "", err |-> Err("GoogleApplicationCredentials not found")]
    ELSE [val |-> cfg.auth, err |-> Nil]

NoGcsMeta ==
    [bucketName |-> <<>>, gcpAuthorization |-> "", maxBucketItemsToScan |-> 0,
     targetObjectCount |-> 0]

\* parseGcsMetadata(config)
parseGcsMetadata(cfg) ==
    LET bn  == cfg.bucketName
        toc == cfg.targetObjectCount
        mx  == cfg.maxBucketItemsToScan
        pt  == ParseInt(toc.val)
        pm  == ParseInt(mx.val)
        au  == getGcpAuthorization(cfg)
        fail(msg) == [meta |-> NoGcsMeta, err |-> Err(msg)]
    IN  IF ~bn.ok \/ bn.val = <<>> THEN fail("no bucket name given")
        ELSE IF toc.ok /\ pt.err /= Nil THEN fail("error parsing targetObjectCount")
        ELSE IF mx.ok /\ pm.err /= Nil THEN fail("error parsing maxBucketItemsToScan")
        ELSE IF au.err /= Nil THEN [meta |-> NoGcsMeta, err |-> au.err]
        ELSE [meta |->
                [bucketName |-> bn.val,
                 gcpAuthorization |-> au.val,
                 maxBucketItemsToScan |->
                    IF mx.ok THEN pm.val ELSE defaultMaxBucketItemsToScan,
                 targetObjectCount |->
                    IF toc.ok THEN pt.val ELSE defaultTargetObjectCount],
              err |-> Nil]

GcsConfigs ==
    [kind : {"gcs"},
     metricType : MetricTypes,
     bucketName : {Absent, Str(<<>>), Str(<<"b">>)},
     targetObjectCount : {Absent, Str(<<"x">>), Str(<<"5">>)},
     maxBucketItemsToScan :
        {Absent, Str(<<"x">>), Str(<<"-", "1">>), Str(<<"0">>), Str(<<"2">>)},
     auth : {"podIdentity", "credentialsFile", "credentials", "notFound"}]

----------------------------------------------------------------------------
(* Object-count scaler: bounded enumeration                                *)

Done == <<"no more items in iterator">>

BucketNotExist == <<"bucket doesn't exist">>

\* What the backend can answer during an enumeration
IterErrors ==
    { <<"storage:", "bucket doesn't exist">>,
      <<"googleapi:", "Error 404:", "bucket doesn't exist", "notFound">>,
      <<"context", "canceled">> }

\* A bucket listing: n objects, and possibly an error answered by the
\* Next call that follows faultAt delivered objects
Iterators ==
    { [n |-> n, faultAt |-> 0, fault |-> Nil] : n \in 0..MaxItems }
      \cup
    { it \in [n : 0..MaxItems, faultAt : 0..MaxItems, fault : IterErrors] :
        it.faultAt <= it.n }

\* it.Next() after `delivered` objects were handed out: Nil means an object
ItNext(it, delivered) ==
    IF it.fault /= Nil /\ delivered = it.faultAt THEN it.fault
    ELSE IF delivered < it.n THEN Nil
    ELSE Done

\* the loop with an off-by-one bound
RECURSIVE ItemLoopInclusive(_, _, _)
ItemLoopInclusive(count, maxCount, it) ==
    IF ~(count <= maxCount) THEN [count |-> count, err |-> Nil]
    ELSE LET e == ItNext(it, count)
         IN  IF e = Done THEN [count |-> count, err |-> Nil]
             ELSE IF e /= Nil
                  THEN IF Contains(e, BucketNotExist)
                       THEN [count |-> 0, err |-> Nil]
                       ELSE [count |-> count, err |-> e]
                  ELSE ItemLoopInclusive(count + 1, maxCount, it)

\* the loop of getItemCount, entered with the running count
RECURSIVE ItemLoop(_, _, _)
ItemLoop(count, maxCount, it) ==
    IF ~(count < maxCount) THEN [count |-> count, err |-> Nil]
    ELSE LET e == ItNext(it, count)
         IN  IF e = Done THEN [count |-> count, err |-> Nil]
             ELSE IF e /= Nil
                  THEN IF Contains(e, BucketNotExist)
                       THEN [count |-> 0, err |-> Nil]
                       ELSE [count |-> count, err |-> e]
                  ELSE ItemLoop(count + 1, maxCount, it)

\* a counter that keeps the partial count when the bucket is absent
getItemCountKeep(it, maxCount) ==
    LET r == ItemLoop(0, maxCount, it)
        hit == it.fault /= Nil /\ it.faultAt < maxCount /\ it.faultAt <= it.n
    IN  IF hit /\ Contains(it.fault, BucketNotExist)
        THEN [count |-> it.faultAt, err |-> Nil]
        ELSE r

\* getItemCount(ctx, maxCount); the attribute selection {"Name"} is accepted
getItemCount(it, maxCount) == ItemLoop(0, maxCount, it)

\* ExternalMetricValue, without its wall-clock timestamp
Metric(name, value) == [MetricName |-> name, Value |-> value]

GcsIsActiveResult(meta, it) ==
    LET r == getItemCount(it, 1)
    IN  IF r.err /= Nil THEN [active |-> FALSE, err |-> r.err]
        ELSE [active |-> r.count > 0, err |-> Nil]

\* gcsScaler.GetMetrics(ctx, metricName, metricSelector)
GcsGetMetricsResult(meta, it, metricName) ==
    LET r == getItemCount(it, meta.maxBucketItemsToScan)
    IN  IF r.err /= Nil THEN [metrics |-> <<>>, err |-> r.err]
        ELSE [metrics |-> <<Metric(metricName, r.count)>>, err |-> Nil]

----------------------------------------------------------------------------
(* Predictive scaler: metadata                                             *)

\* validator "url": scheme, separator, host
IsURL(s) == Len(s) >= 3 /\ s[2] = "://" /\ s[1] /= "://" /\ s[3] /= "://"

\* validator "jwt": three segments separated by dots
IsJWT(s) ==
    /\ Len(s) = 5
    /\ s[2] = "." /\ s[4] = "."
    /\ s[1] /= "." /\ s[3] /= "." /\ s[5] /= "."

\* str2duration.ParseDuration: digits and a unit, in minutes
ParseDuration(s) ==
    LET body == SubSeq(s, 1, Len(s) - 1)
        unit == IF Len(s) > 0 THEN s[Len(s)] ELSE ""
    IN  IF unit \in {"m", "h"} /\ AllDigits(body)
        THEN [val |-> DigitsVal(body) * (IF unit = "h" THEN 60 ELSE 1), err |-> Nil]
        ELSE [val |-> 0, err |-> Err("invalid duration")]

\* authentication.GetAuthConfigs(config.TriggerMetadata, config.AuthParams)
GetAuthConfigs(cfg) ==
    IF cfg.authModes = "bad"
    THEN [val |-> "", err |-> Err("incorrect value for authMode is given")]
    ELSE [val |-> cfg.authModes, err |-> Nil]

NoPkMeta ==
    [predictHorizon |-> 0, historyTimeWindow |-> 0, stepDuration |-> 0,
     apiKey |-> <<>>, prometheusAddress |-> <<>>, prometheusAuth |-> "",
     query |-> <<>>, threshold |-> 0, scalerIndex |-> 0]

\* a parser that lets a configuration without threshold through
parsePredictKubeMetadataLax(cfg) ==
    LET ph  == ParseDuration(cfg.predictHorizon.val)
        qs  == ParseDuration(cfg.queryStep.val)
        hw  == ParseDuration(cfg.historyTimeWindow.val)
        th  == ParseInt(cfg.threshold.val)
        ac  == GetAuthConfigs(cfg)
        fail(msg) == [meta |-> NoPkMeta, err |-> msg]
    IN  IF ~cfg.query.ok \/ Len(cfg.query.val) = 0 THEN fail(Err("no query given"))
        ELSE IF ~cfg.prometheusAddress.ok THEN fail(Err("no prometheusAddress given"))
        ELSE IF ~IsURL(cfg.prometheusAddress.val) THEN fail(Err("invalid prometheusAddress"))
        ELSE IF ~cfg.predictHorizon.ok THEN fail(Err("no predictHorizon given"))
        ELSE IF ph.err /= Nil THEN fail(<<"predictHorizon parsing error">> \o ph.err)
        ELSE IF ~cfg.queryStep.ok THEN fail(Err("no queryStep given"))
        ELSE IF qs.err /= Nil THEN fail(<<"queryStep parsing error">> \o qs.err)
        ELSE IF ~cfg.historyTimeWindow.ok THEN fail(Err("no historyTimeWindow given"))
        ELSE IF hw.err /= Nil THEN fail(<<"historyTimeWindow parsing error">> \o hw.err)
        ELSE IF cfg.threshold.ok /\ th.err /= Nil
             THEN fail(<<"threshold parsing error">> \o th.err)
        ELSE IF ~cfg.apiKey.ok THEN fail(Err("no api key given"))
        ELSE IF ~IsJWT(cfg.apiKey.val) THEN fail(Err("invalid apiKey"))
        ELSE IF ac.err /= Nil THEN fail(ac.err)
        ELSE [meta |->
                [predictHorizon |-> ph.val, historyTimeWindow |-> hw.val,
                 stepDuration |-> qs.val, apiKey |-> cfg.apiKey.val,
                 prometheusAddress |-> cfg.prometheusAddress.val,
                 prometheusAuth |-> ac.val, query |-> cfg.query.val,
                 threshold |-> th.val, scalerIndex |-> cfg.scalerIndex],
              err |-> Nil]

\* parsePredictKubeMetadata(config)
parsePredictKubeMetadata(cfg) ==
    LET ph  == ParseDuration(cfg.predictHorizon.val)
        qs  == ParseDuration(cfg.queryStep.val)
        hw  == ParseDuration(cfg.historyTimeWindow.val)
        th  == ParseInt(cfg.threshold.val)
        ac  == GetAuthConfigs(cfg)
        fail(msg) == [meta |-> NoPkMeta, err |-> msg]
    IN  IF ~cfg.query.ok \/ Len(cfg.query.val) = 0 THEN fail(Err("no query given"))
        ELSE IF ~cfg.prometheusAddress.ok THEN fail(Err("no prometheusAddress given"))
        ELSE IF ~IsURL(cfg.prometheusAddress.val) THEN fail(Err("invalid prometheusAddress"))
        ELSE IF ~cfg.predictHorizon.ok THEN fail(Err("no predictHorizon given"))
        ELSE IF ph.err /= Nil THEN fail(<<"predictHorizon parsing error">> \o ph.err)
        ELSE IF ~cfg.queryStep.ok THEN fail(Err("no queryStep given"))
        ELSE IF qs.err /= Nil THEN fail(<<"queryStep parsing error">> \o qs.err)
        ELSE IF ~cfg.historyTimeWindow.ok THEN fail(Err("no historyTimeWindow given"))
        ELSE IF hw.err /= Nil THEN fail(<<"historyTimeWindow parsing error">> \o hw.err)
        ELSE IF ~cfg.threshold.ok THEN fail(Err("no threshold given"))
        ELSE IF th.err /= Nil THEN fail(<<"threshold parsing error">> \o th.err)
        ELSE IF ~cfg.apiKey.ok THEN fail(Err("no api key given"))
        ELSE IF ~IsJWT(cfg.apiKey.val) THEN fail(Err("invalid apiKey"))
        ELSE IF ac.err /= Nil THEN fail(ac.err)
        ELSE [meta |->
                [predictHorizon |-> ph.val, historyTimeWindow |-> hw.val,
                 stepDuration |-> qs.val, apiKey |-> cfg.apiKey.val,
                 prometheusAddress |-> cfg.prometheusAddress.val,
                 prometheusAuth |-> ac.val, query |-> cfg.query.val,
                 threshold |-> th.val, scalerIndex |-> cfg.scalerIndex],
              err |-> Nil]

PkConfigs ==
    [kind : {"predictkube"},
     metricType : MetricTypes,
     query : {Absent, Str(<<>>), Str(<<"u", "p">>)},
     prometheusAddress : {Absent, Str(<<"prom">>), Str(<<"http", "://", "prom">>)},
     predictHorizon : {Absent, Str(<<"x">>), Str(<<"8", "m">>), Str(<<"1", "0", "m">>)},
     queryStep : {Absent, Str(<<"5">>), Str(<<"0", "m">>), Str(<<"5", "m">>), Str(<<"3", "m">>)},
     historyTimeWindow : {Absent, Str(<<"h">>), Str(<<"1", "h">>)},
     threshold : {Absent, Str(<<"1", "e", "2">>), Str(<<"1", "0", "0">>)},
     apiKey : {Absent, Str(<<"k">>), Str(<<"h", ".", "p", ".", "s">>)},
     authModes : {"", "bad"},
     scalerIndex : {0}]

----------------------------------------------------------------------------
(* Predictive scaler: query results and their normalization                *)

\* sample values, times Scale: -1.5, 0, 1.5
SampleValues == {0 - 15, 0, 15}

\* the sample at position j of a range or instant result: time in ms
Sample(j, v) == [Timestamp |-> 1500 * j, Value |-> v]

RECURSIVE SeriesOfLen(_)
SeriesOfLen(n) ==
    IF n = 0 THEN {<<>>}
    ELSE { Append(s, Sample(n, v)) : s \in SeriesOfLen(n - 1), v \in SampleValues }

SeriesUpTo(n) == UNION { SeriesOfLen(k) : k \in 0..n }

RECURSIVE MatricesOfLen(_, _)
MatricesOfLen(n, maxLen) ==
    IF n = 0 THEN {<<>>}
    ELSE { Append(m, s) : m \in MatricesOfLen(n - 1, maxLen), s \in SeriesUpTo(maxLen) }

NumericStrings == { <<"1", ".", "5">>, <<"0">>, <<"-", "2">>, <<"N", "o">> }

\* model.Value: its Type() and its content
Value(type, samples, series, str) ==
    [Type |-> type, samples |-> samples, series |-> series, str |-> str]

QueryValues(maxSeries, maxLen) ==
    { Value("vector", s, <<>>, <<>>) : s \in SeriesUpTo(maxLen) }
      \cup
    { Value("matrix", <<>>, m, <<>>) :
        m \in UNION { MatricesOfLen(k, maxLen) : k \in 0..maxSeries } }
      \cup
    { Value("scalar", <<Sample(1, v)>>, <<>>, <<>>) : v \in SampleValues }
      \cup
    { Value("string", <<Sample(1, 0)>>, <<>>, str) : str \in NumericStrings }
      \cup
    { Value("none", <<>>, <<>>, <<>>) }

\* s.api.QueryRange: an error, or a value
QueryOutcomes(maxSeries, maxLen) ==
    { [err |-> Err("connection refused"), val |-> Value("none", <<>>, <<>>, <<>>)] }
      \cup
    { [err |-> Nil, val |-> v] : v \in QueryValues(maxSeries, maxLen) }

\* tc.AdaptTimeToPbTimestamp(tc.TimeToTimePtr(t.Time())): ms to seconds and nanos
AdaptTimeToPbTimestamp(ms) ==
    [Seconds |-> ms \div 1000, Nanos |-> (ms % 1000) * 1000000]

\* strconv.ParseFloat(s, 64) for [-]digits[.digit], in fixed point
ParseFloat(s) ==
    LET neg  == Len(s) > 0 /\ s[1] = "-"
        body == IF neg THEN Tail(s) ELSE s
        dots == { i \in 1..Len(body) : body[i] = "." }
        ip   == IF dots = {} THEN body
                ELSE SubSeq(body, 1, (CHOOSE i \in dots : TRUE) - 1)
        fp   == IF dots = {} THEN <<"0">>
                ELSE SubSeq(body, (CHOOSE i \in dots : TRUE) + 1, Len(body))
        mag  == DigitsVal(ip) * Scale + DigitsVal(fp) * (Scale \div 10)
    IN  IF Cardinality(dots) <= 1 /\ AllDigits(ip) /\ AllDigits(fp) /\ Len(fp) = 1
        THEN [val |-> IF neg THEN 0 - mag ELSE mag, err |-> Nil]
        ELSE [val |-> 0, err |-> Err("invalid syntax")]

\* GenerateMetricNameWithIndex(scalerIndex, kedautil.NormalizeString(name))
GenerateMetricNameWithIndex(scalerIndex, name) == <<"s", scalerIndex, "-", name>>

\* commonproto.Item
Item(sample, name) ==
    [Timestamp |-> AdaptTimeToPbTimestamp(sample.Timestamp),
     Value |-> sample.Value,
     MetricName |-> name]

\* the inner loop: for _, v := range val.Values
RECURSIVE AppendSamples(_, _, _)
AppendSamples(out, samples, name) ==
    IF samples = <<>> THEN out
    ELSE AppendSamples(Append(out, Item(Head(samples), name)), Tail(samples), name)

\* the outer loop: for _, val := range res
RECURSIVE AppendSeries(_, _, _)
AppendSeries(out, series, name) ==
    IF series = <<>> THEN out
    ELSE AppendSeries(AppendSamples(out, Head(series), name), Tail(series), name)

\* a normalizer that keeps only each series' last sample
parsePrometheusResultLast(scalerIndex, result) ==
    LET name == GenerateMetricNameWithIndex(scalerIndex, "predictkube-predictkube_metric")
        lasts == [i \in 1..Len(result.series) |->
                    IF result.series[i] = <<>> THEN <<>>
                    ELSE <<result.series[i][Len(result.series[i])]>>]
    IN  CASE result.Type = "vector" ->
                [out |-> AppendSamples(<<>>, result.samples, name), err |-> Nil]
          [] result.Type = "matrix" ->
                [out |-> AppendSeries(<<>>, lasts, name), err |-> Nil]
          [] result.Type = "scalar" ->
                [out |-> <<Item(result.samples[1], name)>>, err |-> Nil]
          [] result.Type = "string" ->
                LET f == ParseFloat(result.str)
                IN  IF f.err /= Nil THEN [out |-> <<>>, err |-> f.err]
                    ELSE [out |-> <<Item([result.samples[1] EXCEPT !.Value = f.val], name)>>,
                          err |-> Nil]
          [] OTHER -> [out |-> <<>>, err |-> Err("metric type is invalid")]

\* parsePrometheusResult(result), for timestamps a protobuf Timestamp can hold
parsePrometheusResult(scalerIndex, result) ==
    LET name == GenerateMetricNameWithIndex(scalerIndex, "predictkube-predictkube_metric")
    IN  CASE result.Type = "vector" ->
                [out |-> AppendSamples(<<>>, result.samples, name), err |-> Nil]
          [] result.Type = "matrix" ->
                [out |-> AppendSeries(<<>>, result.series, name), err |-> Nil]
          [] result.Type = "scalar" ->
                [out |-> <<Item(result.samples[1], name)>>, err |-> Nil]
          [] result.Type = "string" ->
                LET f == ParseFloat(result.str)
                IN  IF f.err /= Nil THEN [out |-> <<>>, err |-> f.err]
                    ELSE [out |-> <<Item([result.samples[1] EXCEPT !.Value = f.val], name)>>,
                          err |-> Nil]
          [] OTHER -> [out |-> <<>>, err |-> Err("metric type is invalid")]

----------------------------------------------------------------------------
(* Predictive scaler: one call                                             *)

\* int64(f) of a float64: truncation toward zero
Int64(f) == IF f >= 0 THEN f \div Scale ELSE 0 - ((0 - f) \div Scale)

\* uint64(f) of a non-negative float64
Uint64(f) == f \div Scale

\* float64(i) of an integer
Float64(i) == i * Scale

\* math.Round: to the nearest integer, halves away from zero
Round(f) ==
    IF f >= 0 THEN ((2 * f + Scale) \div (2 * Scale)) * Scale
    ELSE 0 - (((2 * (0 - f) + Scale) \div (2 * Scale)) * Scale)

\* the range queried and what doQuery returns: m is the metadata after the
\* default step was filled in, q what QueryRange answers, p its normalization
doQueryReturn(m, q, p) ==
    LET r == [Window |-> m.historyTimeWindow, Step |-> m.stepDuration,
              Query |-> m.query]
    IN  IF q.err /= Nil
        THEN [meta |-> m, range |-> r, results |-> <<>>, err |-> q.err]
        ELSE [meta |-> m, range |-> r, results |-> p.out, err |-> p.err]

\* a query step that falls back to the default step when the query fails
doQueryResetOnError(meta, q) ==
    doQueryReturn(IF meta.stepDuration = 0 \/ q.err /= Nil
                  THEN [meta EXCEPT !.stepDuration = defaultStep]
                  ELSE meta,
                  q, parsePrometheusResult(meta.scalerIndex, q.val))

\* doQuery(ctx): q is what QueryRange answers
doQuery(meta, q) ==
    doQueryReturn(IF meta.stepDuration = 0
                  THEN [meta EXCEPT !.stepDuration = defaultStep]
                  ELSE meta,
                  q, parsePrometheusResult(meta.scalerIndex, q.val))

\* what the forecasting engine can answer to GetPredictMetric
PredictAnswers ==
    { [err |-> Err("rpc error"), ResultMetric |-> 0] }
      \cup
    { [err |-> Nil, ResultMetric |-> x] : x \in {0 - 1, 0, 1, 2} }

\* the last observation as an integer, zero when there is none
LastObserved(results) ==
    IF Len(results) > 0 THEN Int64(results[Len(results)].Value) ELSE 0

\* a comparison that keeps the smaller value
Smaller(x, y) == IF x < y THEN x ELSE y

\* func(x, y int64) int64
Larger(x, y) == IF x < y THEN y ELSE x

\* doPredictRequest after its query: d is what doQuery returned
doPredictReturn(d, p) ==
    LET req == [ForecastHorizon |->
                    Uint64(Round(Float64(d.meta.predictHorizon \div d.meta.stepDuration))),
                Observations |-> d.results]
        r   == [meta |-> d.meta, range |-> d.range, results |-> d.results]
    IN  IF d.err /= Nil
        THEN r @@ [requests |-> <<>>, value |-> 0, err |-> d.err]
        ELSE IF p.err /= Nil
        THEN r @@ [requests |-> <<req>>, value |-> 0, err |-> p.err]
        ELSE r @@ [requests |-> <<req>>,
                   value |-> Larger(p.ResultMetric, LastObserved(d.results)),
                   err |-> Nil]

\* a predict request that returns the forecast alone
doPredictRequestForecastOnly(meta, q, p) ==
    LET r == doPredictReturn(doQuery(meta, q), p)
    IN  IF r.err = Nil THEN [r EXCEPT !.value = p.ResultMetric] ELSE r

\* doPredictRequest(ctx): p is what GetPredictMetric answers
doPredictRequest(meta, q, p) == doPredictReturn(doQuery(meta, q), p)

\* a GetMetrics that reports a zero value as a reading
PkGetMetricsResultZeroOk(meta, q, p, metricName) ==
    LET d == doPredictReturn(doQuery(meta, q), p)
        r == [meta |-> d.meta, range |-> d.range, results |-> d.results,
              requests |-> d.requests, value |-> d.value]
    IN  IF d.err /= Nil
        THEN r @@ [metrics |-> <<>>, err |-> d.err]
        ELSE r @@ [metrics |-> <<Metric(metricName, d.value)>>, err |-> Nil]

\* GetMetrics after its predict request: d is what doPredictRequest returned
PkGetMetricsReturn(d, metricName) ==
    LET r == [meta |-> d.meta, range |-> d.range, results |-> d.results,
              requests |-> d.requests, value |-> d.value]
    IN  IF d.err /= Nil
        THEN r @@ [metrics |-> <<>>, err |-> d.err]
        ELSE IF d.value = 0
        THEN r @@ [metrics |-> <<>>, err |-> Err("empty response after predict request")]
        ELSE r @@ [metrics |-> <<Metric(metricName, d.value)>>, err |-> Nil]

\* PredictKubeScaler.GetMetrics(ctx, metricName, _)
PkGetMetricsResult(meta, q, p, metricName) ==
    PkGetMetricsReturn(doPredictRequest(meta, q, p), metricName)

\* what s.healthClient.Check can answer: a response or none, an error or none
HealthAnswers ==
    { [resp |-> TRUE, err |-> Nil],
      [resp |-> FALSE, err |-> Err("unavailable")],
      [resp |-> TRUE, err |-> Err("unavailable")],
      [resp |-> FALSE, err |-> Nil] }

\* IsActive after its query: d is what doQuery returned, h what the health
\* probe answers
PkIsActiveReturn(d, h) ==
    LET r == [meta |-> d.meta, range |-> d.range, results |-> d.results]
    IN  IF d.err /= Nil
        THEN r @@ [active |-> FALSE, err |-> d.err, probed |-> FALSE]
        ELSE IF ~h.resp
        THEN r @@ [active |-> Len(d.results) > 0, probed |-> TRUE,
                   err |-> <<"can't connect grpc server:", "empty server response">>]
        ELSE IF h.err /= Nil
        THEN r @@ [active |-> Len(d.results) > 0, probed |-> TRUE,
                   err |-> <<"can't connect grpc server:">> \o h.err]
        ELSE r @@ [active |-> LastObserved(d.results) > 0, err |-> Nil, probed |-> TRUE]

\* an IsActive whose degraded answer is the last observation's sign
PkIsActiveResultLastValue(meta, q, h) ==
    LET r == PkIsActiveReturn(doQuery(meta, q), h)
    IN  IF r.probed THEN [r EXCEPT !.active = LastObserved(r.results) > 0] ELSE r

\* PredictKubeScaler.IsActive(ctx): h is what the health probe answers
PkIsActiveResult(meta, q, h) == PkIsActiveReturn(doQuery(meta, q), h)

----------------------------------------------------------------------------
(* Construction                                                            *)

NoConn == [prometheus |-> "nil", grpc |-> "nil", storage |-> "nil"]

\* one contact with a backend: whether the constructor waited for the
\* backend's answer, and whether the backend was reachable at that time
Contact(backend, probed, up) == [backend |-> backend, probed |-> probed, up |-> up]

\* what the environment decides while NewPredictKubeScaler connects
PkEnvs ==
    [roundTripperErr : BOOLEAN, clientErr : BOOLEAN, promUp : BOOLEAN,
     optsErr : BOOLEAN, dialErr : BOOLEAN, grpcUp : BOOLEAN]

\* a connection set-up that does not look at the ping's answer
initPredictKubePrometheusConnNoPing(meta, env) ==
    IF env.roundTripperErr
    THEN [events |-> <<>>, err |-> Err("init Prometheus client http transport")]
    ELSE IF env.clientErr
    THEN [events |-> <<>>, err |-> Err("init Prometheus client")]
    ELSE [events |-> <<Contact("prometheus", TRUE, env.promUp)>>, err |-> Nil]

\* initPredictKubePrometheusConn(ctx), with ping(ctx) as its last step
initPredictKubePrometheusConn(meta, env) ==
    IF env.roundTripperErr
    THEN [events |-> <<>>, err |-> Err("init Prometheus client http transport")]
    ELSE IF env.clientErr
    THEN [events |-> <<>>, err |-> Err("init Prometheus client")]
    ELSE [events |-> <<Contact("prometheus", TRUE, env.promUp)>>,
          err |-> IF env.promUp THEN Nil ELSE Err("connection refused")]

\* setupClientConn(): grpc.Dial returns without waiting for the channel
setupClientConn(meta, env) ==
    IF env.optsErr
    THEN [events |-> <<>>, err |-> Err("grpc client options")]
    ELSE [events |-> <<Contact("grpc", FALSE, env.grpcUp)>>,
          err |-> IF env.dialErr THEN Err("grpc dial") ELSE Nil]

\* NewPredictKubeScaler(ctx, config)
NewPredictKubeScalerResult(cfg, env) ==
    LET mt == GetMetricTargetType(cfg)
        pm == parsePredictKubeMetadata(cfg)
        ic == initPredictKubePrometheusConn(pm.meta, env)
        sc == setupClientConn(pm.meta, env)
        fail(ev, e) == [scaler |-> FALSE, meta |-> NoPkMeta, conn |-> NoConn,
                        events |-> ev, err |-> e]
    IN  IF mt.err /= Nil
        THEN fail(<<>>, <<"error getting scaler metric type:">> \o mt.err)
        ELSE IF pm.err /= Nil
        THEN fail(<<>>, <<"error parsing PredictKube metadata:">> \o pm.err)
        ELSE IF ic.err /= Nil
        THEN fail(ic.events,
                  <<"error create Prometheus client and API objects:">> \o ic.err)
        ELSE IF sc.err /= Nil
        THEN fail(ic.events \o sc.events, <<"error init GRPC client:">> \o sc.err)
        ELSE [scaler |-> TRUE, meta |-> pm.meta,
              conn |-> [prometheus |-> "open", grpc |-> "open", storage |-> "nil"],
              events |-> ic.events \o sc.events, err |-> Nil]

\* what the environment decides while NewGcsScaler creates its client
GcsEnvs == [clientErr : BOOLEAN, storageUp : BOOLEAN]

\* NewGcsScaler(config): client.Bucket always hands out a handle
NewGcsScalerResult(cfg, env) ==
    LET mt == GetMetricTargetType(cfg)
        pm == parseGcsMetadata(cfg)
        ev == <<Contact("storage", FALSE, env.storageUp)>>
        fail(e, evs) == [scaler |-> FALSE, meta |-> NoGcsMeta, conn |-> NoConn,
                         events |-> evs, err |-> e]
    IN  IF mt.err /= Nil
        THEN fail(<<"error getting scaler metric type:">> \o mt.err, <<>>)
        ELSE IF pm.err /= Nil
        THEN fail(<<"error parsing GCP storage metadata:">> \o pm.err, <<>>)
        ELSE IF env.clientErr
        THEN fail(<<"storage.NewClient:", "invalid credentials">>, ev)
        ELSE [scaler |-> TRUE, meta |-> pm.meta,
              conn |-> [prometheus |-> "nil", grpc |-> "nil", storage |-> "open"],
              events |-> ev, err |-> Nil]

----------------------------------------------------------------------------
(* The life of one scaler instance                                         *)

NoConfig == [kind |-> "none"]

NoRet == [op |-> "none"]

Init ==
    /\ pc = "new"
    /\ config = NoConfig
    /\ metadata = NoConfig
    /\ conn = NoConn
    /\ events = <<>>
    /\ ctorErr = Nil
    /\ ret = NoRet

Constructed(cfg, r) ==
    /\ pc' = IF r.scaler THEN "ready" ELSE "failed"
    /\ config' = cfg
    /\ metadata' = r.meta
    /\ conn' = r.conn
    /\ events' = r.events
    /\ ctorErr' = r.err
    /\ UNCHANGED ret

AnyPkEnv == [roundTripperErr |-> FALSE, clientErr |-> FALSE, promUp |-> TRUE,
             optsErr |-> FALSE, dialErr |-> FALSE, grpcUp |-> TRUE]

NewPredictKubeScaler ==
    /\ pc = "new"
    /\ \E cfg \in PkConfigs :
        \* the environment matters only once validation has passed
        \E env \in IF NewPredictKubeScalerResult(cfg, AnyPkEnv).scaler
                   THEN PkEnvs ELSE {AnyPkEnv} :
            Constructed(cfg, NewPredictKubeScalerResult(cfg, env))

AnyGcsEnv == [clientErr |-> FALSE, storageUp |-> TRUE]

NewGcsScaler ==
    /\ pc = "new"
    /\ \E cfg \in GcsConfigs :
        \E env \in IF NewGcsScalerResult(cfg, AnyGcsEnv).scaler
                   THEN GcsEnvs ELSE {AnyGcsEnv} :
            Constructed(cfg, NewGcsScalerResult(cfg, env))

\* the range results drawn for a call: one query, one series
CallQueryOutcomes == QueryOutcomes(1, MaxSamples)

PkIsActive ==
    /\ pc = "ready" /\ config.kind = "predictkube"
    /\ \E q \in CallQueryOutcomes, h \in HealthAnswers :
        LET r == PkIsActiveResult(metadata, q, h)
        IN  /\ metadata' = r.meta
            /\ ret' = [op |-> "pk.IsActive", q |-> q, h |-> h, out |-> r]
    /\ UNCHANGED <<pc, config, conn, events, ctorErr>>

PkGetMetrics ==
    /\ pc = "ready" /\ config.kind = "predictkube"
    /\ \E q \in CallQueryOutcomes, p \in PredictAnswers :
        LET r == PkGetMetricsResult(metadata, q, p, "m")
        IN  /\ metadata' = r.meta
            /\ ret' = [op |-> "pk.GetMetrics", q |-> q, p |-> p, out |-> r]
    /\ UNCHANGED <<pc, config, conn, events, ctorErr>>

\* PredictKubeScaler.Close: s.grpcConn.Close()
PkClose ==
    /\ pc = "ready" /\ config.kind = "predictkube"
    /\ pc' = "closed"
    /\ conn' = [conn EXCEPT !.grpc = "closed"]
    /\ UNCHANGED <<config, metadata, events, ctorErr, ret>>

GcsIsActive ==
    /\ pc = "ready" /\ config.kind = "gcs"
    /\ \E it \in Iterators :
        ret' = [op |-> "gcs.IsActive", it |-> it, maxCount |-> 1,
                counted |-> getItemCount(it, 1),
                out |-> GcsIsActiveResult(metadata, it)]
    /\ UNCHANGED <<pc, config, metadata, conn, events, ctorErr>>

GcsGetMetrics ==
    /\ pc = "ready" /\ config.kind = "gcs"
    /\ \E it \in Iterators :
        ret' = [op |-> "gcs.GetMetrics", it |-> it,
                maxCount |-> metadata.maxBucketItemsToScan,
                counted |-> getItemCount(it, metadata.maxBucketItemsToScan),
                out |-> GcsGetMetricsResult(metadata, it, "m")]
    /\ UNCHANGED <<pc, config, metadata, conn, events, ctorErr>>

\* gcsScaler.Close: s.client.Close() when there is a client
GcsClose ==
    /\ pc = "ready" /\ config.kind = "gcs"
    /\ pc' = "closed"
    /\ conn' = IF conn.storage /= "nil" THEN [conn EXCEPT !.storage = "closed"] ELSE conn
    /\ UNCHANGED <<config, metadata, events, ctorErr, ret>>

Next ==
    \/ NewPredictKubeScaler
    \/ NewGcsScaler
    \/ PkIsActive
    \/ PkGetMetrics
    \/ PkClose
    \/ GcsIsActive
    \/ GcsGetMetrics
    \/ GcsClose

Spec == Init /\ [][Next]_vars

----------------------------------------------------------------------------
(* The normalizer alone, on every shape of result                          *)

InitNorm ==
    /\ pc = "norm"
    /\ config = NoConfig
    /\ metadata = NoConfig
    /\ conn = NoConn
    /\ events = <<>>
    /\ ctorErr = Nil
    /\ \E i \in {0, 1}, v \in QueryValues(MaxSeries, MaxSamples) :
        ret = [op |-> "input", scalerIndex |-> i, val |-> v]

Normalize ==
    /\ pc = "norm" /\ ret.op = "input"
    /\ ret' = [op |-> "parsePrometheusResult", scalerIndex |-> ret.scalerIndex,
               val |-> ret.val,
               out |-> parsePrometheusResult(ret.scalerIndex, ret.val)]
    /\ UNCHANGED <<pc, config, metadata, conn, events, ctorErr>>

NextNorm == Normalize

SpecNorm == InitNorm /\ [][NextNorm]_vars

----------------------------------------------------------------------------
(* Properties of the bounded enumeration                                   *)

GcsCall == ret.op \in {"gcs.IsActive", "gcs.GetMetrics"}

\* the enumeration meets the backend's error before it stops
FaultHit(it, maxCount) == it.fault /= Nil /\ it.faultAt < maxCount

CountWithinBound ==
    /\ ret.counted.count <= ret.maxCount
    /\ (~FaultHit(ret.it, ret.maxCount) /\ ret.it.n >= ret.maxCount)
            => ret.counted = [count |-> ret.maxCount, err |-> Nil]
    /\ (~FaultHit(ret.it, ret.maxCount) /\ ret.it.n < ret.maxCount)
            => ret.counted = [count |-> ret.it.n, err |-> Nil]

\* C1, as stated: for every scan bound, getItemCount returns at most the
\* bound, exactly the bound when the bucket holds at least that many objects
\* and no enumeration error occurs, and the number of objects when the
\* enumeration is exhausted first.
C1_AnyBound == GcsCall => CountWithinBound

\* C1, amended: the same for every scan bound that is not negative.
C1_NonNegativeBound == (GcsCall /\ ret.maxCount >= 0) => CountWithinBound

C1_Witness ==
    /\ ret.op = "gcs.GetMetrics"
    /\ ret.maxCount = 2 /\ ret.it.n = 3 /\ ret.it.fault = Nil
    /\ ret.counted.count = 2

\* C2: an enumeration error saying the bucket doesn't exist gives count 0 and
\* no error, whatever was counted before it; any other enumeration error
\* gives the count reached so far and that same error.
C2_EnumerationErrors ==
    (GcsCall /\ FaultHit(ret.it, ret.maxCount)) =>
        IF Contains(ret.it.fault, BucketNotExist)
        THEN ret.counted = [count |-> 0, err |-> Nil]
        ELSE ret.counted = [count |-> ret.it.faultAt, err |-> ret.it.fault]

C2_Witness ==
    /\ ret.op = "gcs.GetMetrics"
    /\ FaultHit(ret.it, ret.maxCount)
    /\ ret.it.faultAt = 1
    /\ Contains(ret.it.fault, BucketNotExist)
    /\ ret.counted.count = 0

----------------------------------------------------------------------------
(* Properties of the predictive scaler's calls                             *)

Last(s) == s[Len(s)]

\* GetMetrics returned a metric computed from at least one observation
PkMetricReturned ==
    /\ ret.op = "pk.GetMetrics"
    /\ ret.out.err = Nil
    /\ Len(ret.out.results) > 0

\* C3, as stated: whenever GetMetrics succeeds, the returned value is never
\* less than the value of the last observation of the window.
C3_NotBelowLastObservation ==
    PkMetricReturned =>
        /\ Len(ret.out.metrics) = 1
        /\ ret.out.metrics[1].Value * Scale >= Last(ret.out.results).Value

\* C3, amended: whenever GetMetrics succeeds, the returned value is the larger
\* of the predicted value and the last observation truncated toward zero, so
\* it is never less than that truncated observation.
C3_NotBelowTruncatedObservation ==
    PkMetricReturned =>
        LET y == Last(ret.out.results).Value
            t == IF y >= 0 THEN y \div Scale ELSE 0 - ((0 - y) \div Scale)
            x == ret.p.ResultMetric
        IN  /\ Len(ret.out.metrics) = 1
            /\ ret.out.metrics[1].Value >= t
            /\ ret.out.metrics[1].Value >= x
            /\ ret.out.metrics[1].Value \in {t, x}

C3_Witness ==
    /\ PkMetricReturned
    /\ Last(ret.out.results).Value = 15
    /\ ret.p.ResultMetric = 0
    /\ ret.out.metrics[1].Value = 1

\* GetMetrics of the predictive scaler computed the value zero
PkZeroComputed ==
    /\ ret.op = "pk.GetMetrics"
    /\ Len(ret.out.requests) = 1 /\ ret.p.err = Nil
    /\ ret.out.value = 0

\* GetMetrics of the object-count scaler counted zero objects
GcsZeroComputed ==
    /\ ret.op = "gcs.GetMetrics"
    /\ ret.counted = [count |-> 0, err |-> Nil]

\* C4, as stated: for every scaler variant, a GetMetrics call that computes
\* the value zero returns an error and an empty list.
C4_ZeroIsErrorEverywhere ==
    (PkZeroComputed \/ GcsZeroComputed) =>
        (ret.out.err /= Nil /\ ret.out.metrics = <<>>)

\* C4, amended: the predictive scaler returns an error and an empty list for
\* a computed zero; the object-count scaler returns the metric value 0 and no
\* error.
C4_ZeroIsErrorForPredictive ==
    /\ PkZeroComputed =>
        (ret.out.err = Err("empty response after predict request")
            /\ ret.out.metrics = <<>>)
    /\ GcsZeroComputed =>
        (ret.out.err = Nil /\ ret.out.metrics = <<Metric("m", 0)>>)

C4_Witness ==
    /\ PkZeroComputed
    /\ Len(ret.out.results) > 0
    /\ ret.out.err /= Nil

\* IsActive got its observations, and the health probe failed or was empty
PkDegraded ==
    /\ ret.op = "pk.IsActive"
    /\ ret.out.probed
    /\ (~ret.h.resp \/ ret.h.err /= Nil)

LastObservedPositive(results) ==
    Len(results) > 0 /\ Last(results).Value >= Scale

\* C5, as stated: with a failed or empty probe, IsActive returns an error and
\* the boolean "last observed value > 0" it returns when the probe succeeds.
C5_DegradedKeepsLastValue ==
    PkDegraded =>
        /\ ret.out.err /= Nil
        /\ ret.out.active = LastObservedPositive(ret.out.results)

\* C5, amended: with a failed or empty probe, IsActive returns an error and
\* the boolean "the query returned at least one observation".
C5_DegradedKeepsPresence ==
    PkDegraded =>
        /\ ret.out.err /= Nil
        /\ ret.out.active = (Len(ret.out.results) > 0)

C5_Witness ==
    /\ PkDegraded
    /\ Len(ret.out.results) > 0
    /\ Last(ret.out.results).Value = 0
    /\ ret.out.active

\* IsActive returned (true, nil)
PkActiveNoError ==
    /\ ret.op = "pk.IsActive"
    /\ ret.out.active
    /\ ret.out.err = Nil

\* the result holds exactly one metric, of value at least 1
OneMetricAtLeastOne(out) ==
    /\ out.err = Nil
    /\ Len(out.metrics) = 1
    /\ out.metrics[1].Value >= 1

\* C11: whenever IsActive returns (true, nil) for some observations, a
\* GetMetrics call over the same observations whose predict request succeeds
\* does not fail with the zero-result error and returns exactly one metric
\* whose value is at least 1, whatever the predicted value: both for every
\* answer the engine can give, and in every step where GetMetrics follows
\* IsActive on the same query answer.
C11_ActiveImpliesMetric ==
    /\ [](PkActiveNoError =>
            \A p \in PredictAnswers :
                p.err = Nil =>
                    OneMetricAtLeastOne(PkGetMetricsResult(metadata, ret.q, p, "m")))
    /\ [][(/\ PkActiveNoError
           /\ ret'.op = "pk.GetMetrics"
           /\ ret'.q = ret.q
           /\ ret'.p.err = Nil) => OneMetricAtLeastOne(ret'.out)]_vars

C11_Witness ==
    /\ ret.op = "pk.GetMetrics"
    /\ ret.p.err = Nil
    /\ ret.p.ResultMetric < 1
    /\ PkIsActiveResult(metadata, ret.q, [resp |-> TRUE, err |-> Nil]).active
    /\ ret.out.err = Nil
    /\ ret.out.metrics[1].Value = 1

\* the step the configuration asks for, with the default for zero
ConfiguredStep ==
    LET d == ParseDuration(config.queryStep.val).val
    IN  IF d = 0 THEN defaultStep ELSE d

\* C6: the forecast horizon of every predict request is
\* round(predictHorizon / queryStep), with the 5-minute default in place of a
\* zero queryStep.
C6_HorizonIsRounded ==
    (ret.op = "pk.GetMetrics" /\ Len(ret.out.requests) = 1) =>
        LET h == ParseDuration(config.predictHorizon.val).val
        IN  ret.out.requests[1].ForecastHorizon =
                (2 * h + ConfiguredStep) \div (2 * ConfiguredStep)

----------------------------------------------------------------------------
(* Properties of construction                                              *)

Returned == pc \in {"ready", "failed", "closed"}

\* the required fields of each constructor, in the order they are validated
RequiredFields ==
    IF config.kind = "predictkube"
    THEN <<"query", "prometheusAddress", "predictHorizon", "queryStep",
           "historyTimeWindow", "threshold", "apiKey">>
    ELSE <<"bucketName">>

\* the message that reports field f as absent
MissingMessage(f) ==
    CASE f = "query" -> "no query given"
      [] f = "prometheusAddress" -> "no prometheusAddress given"
      [] f = "predictHorizon" -> "no predictHorizon given"
      [] f = "queryStep" -> "no queryStep given"
      [] f = "historyTimeWindow" -> "no historyTimeWindow given"
      [] f = "threshold" -> "no threshold given"
      [] f = "apiKey" -> "no api key given"
      [] f = "bucketName" -> "no bucket name given"

\* the message that reports field f as present and malformed
MalformedMessage(f) ==
    CASE f = "query" -> "no query given"
      [] f = "prometheusAddress" -> "invalid prometheusAddress"
      [] f = "predictHorizon" -> "predictHorizon parsing error"
      [] f = "queryStep" -> "queryStep parsing error"
      [] f = "historyTimeWindow" -> "historyTimeWindow parsing error"
      [] f = "threshold" -> "threshold parsing error"
      [] f = "apiKey" -> "invalid apiKey"
      [] f = "bucketName" -> "no bucket name given"

MissingAt == { i \in 1..Len(RequiredFields) : ~config[RequiredFields[i]].ok }

\* C7, as stated: a configuration that misses a required field makes the
\* constructor fail with an error naming that field, before any backend
\* connection is attempted.
C7_EveryMissingFieldNamed ==
    Returned =>
        \A i \in MissingAt :
            /\ pc = "failed"
            /\ Contains(ctorErr, <<MissingMessage(RequiredFields[i])>>)
            /\ events = <<>>

\* C7, amended: a configuration that misses a required field makes the
\* constructor fail before any backend connection is attempted, with the
\* error of the first check that fails: the metric target type, or the first
\* missing field, or a malformed field validated before it.
C7_FirstFailureReported ==
    (Returned /\ MissingAt /= {}) =>
        LET first == CHOOSE i \in MissingAt : \A j \in MissingAt : i <= j
        IN  /\ pc = "failed"
            /\ events = <<>>
            /\ conn = NoConn
            /\ \/ ctorErr[1] = "error getting scaler metric type:"
               \/ Contains(ctorErr, <<MissingMessage(RequiredFields[first])>>)
               \/ \E j \in 1..(first - 1) :
                    /\ config[RequiredFields[j]].ok
                    /\ Contains(ctorErr, <<MalformedMessage(RequiredFields[j])>>)

C7_Witness ==
    /\ pc = "failed"
    /\ config.kind = "predictkube"
    /\ MissingAt = {6}
    /\ Contains(ctorErr, <<"no threshold given">>)
    /\ events = <<>>

\* the backends a scaler of each kind owns a connection to
OwnedBackends ==
    IF config.kind = "predictkube" THEN {"prometheus", "grpc"} ELSE {"storage"}

----------------------------------------------------------------------------
(* Properties of a failed call                                             *)

\* a step in which IsActive or GetMetrics ran and returned an error
FailedCall == pc = "ready" /\ pc' = "ready" /\ ret'.out.err /= Nil

\* C8, as stated (first half): a failed call leaves the scaler's metadata and
\* connection unchanged.
C8_FailedCallChangesNothing ==
    [][FailedCall => (metadata' = metadata /\ conn' = conn)]_vars

\* the metadata a freshly constructed scaler has for the same configuration
FreshMetadata ==
    IF config.kind = "predictkube"
    THEN parsePredictKubeMetadata(config).meta
    ELSE parseGcsMetadata(config).meta

\* what the last call would have returned on a freshly constructed scaler
FreshResult ==
    CASE ret.op = "pk.IsActive" -> PkIsActiveResult(FreshMetadata, ret.q, ret.h)
      [] ret.op = "pk.GetMetrics" -> PkGetMetricsResult(FreshMetadata, ret.q, ret.p, "m")
      [] ret.op = "gcs.IsActive" -> GcsIsActiveResult(FreshMetadata, ret.it)
      [] ret.op = "gcs.GetMetrics" -> GcsGetMetricsResult(FreshMetadata, ret.it, "m")

\* C8, amended: a failed call leaves the connection unchanged and the
\* metadata unchanged but for a zero step replaced by the default step; the
\* scaler stays usable, and every call returns what it would have returned
\* had no call been made before it.
C8_FailedCallLeavesScalerUsable ==
    /\ [](ret.op /= "none" => ret.out = FreshResult)
    /\ [][FailedCall =>
            /\ conn' = conn
            /\ metadata' =
                IF config.kind = "predictkube" /\ metadata.stepDuration = 0
                THEN [metadata EXCEPT !.stepDuration = defaultStep]
                ELSE metadata]_vars

C8_Witness ==
    /\ pc = "ready"
    /\ ret.op = "pk.GetMetrics"
    /\ ret.out.err /= Nil
    /\ ParseDuration(config.queryStep.val).val = 0
    /\ metadata.stepDuration = defaultStep

----------------------------------------------------------------------------
(* Properties of the normalizer                                            *)

RECURSIVE TotalSamples(_)
TotalSamples(series) ==
    IF series = <<>> THEN 0 ELSE Len(Head(series)) + TotalSamples(Tail(series))

\* milliseconds held by a protobuf timestamp
Millis(ts) == ts.Seconds * 1000 + ts.Nanos \div 1000000

====
